---- MODULE Spec2Model ----
(***************************************************************************)
(* A model of the decision core of the hematite tiling window manager:     *)
(* the aggregate state of src/src/state.rs (nine tags, their windows and   *)
(* focus, the active tag, the tiling parameters) and the event handlers of *)
(* src/src/manager.rs that mutate it.                                      *)
(*                                                                         *)
(* Encodings.  An X11 id is a natural number; Option::None is 0; the       *)
(* PointerRoot focus is 1; client windows are 11, 12, ...; frame ids are   *)
(* 21, 22, ... in the order generate_id hands them out.  The f32 ratio is  *)
(* held in hundredths (0.5 is 50), so a product with the ratio is an       *)
(* integer numerator over 100, truncated the way an `as` cast truncates.   *)
(***************************************************************************)
EXTENDS Integers, Sequences, FiniteSets, TLC

VARIABLES tags, active_tag, tiling, xfocus, next_id, mapped, crashed, last, loop

vars == <<tags, active_tag, tiling, xfocus, next_id, mapped, crashed, last, loop>>

(*************************** bounds of the model ***************************)
\* number of distinct client windows that send events
MaxWin == 2
\* number of frame ids generate_id hands out before the model stops creating
MaxFrames == 2
\* number of windows (and of frame ids) of the tiling specification
MaxTiled == 3
\* number of ticks the channel holds before the model stops the timer thread
MaxTicks == 2
\* number of events the connection holds before the model stops the arrivals
MaxQueued == 1

(***************************** basic values ********************************)
None == 0

PointerRoot == 1

TagCount == 9

RatioScale == 100

SPACING == 10

RATIO == 50

Windows == 11..(10 + MaxWin)

FrameIds == 21..(20 + MaxFrames)

Ids == Windows \cup FrameIds \cup {PointerRoot}

TagIndices == 0..(TagCount - 1)

Min(a, b) == IF a < b THEN a ELSE b

Max(a, b) == IF a > b THEN a ELSE b

Clamp(v, lo, hi) == Max(lo, Min(v, hi))

\* rem_euclid: the non-negative remainder
RemEuclid(a, n) == a % n

(*************************** integer conversions ***************************)
\* `as u16` of an integer: keeps the low 16 bits
ToU16(n) == n % 65536

\* `as i16` of an integer: keeps the low 16 bits, two's complement
ToI16(n) == LET m == n % 65536 IN IF m >= 32768 THEN m - 65536 ELSE m

\* `as u16` of the f32 num/den: truncates toward zero and saturates
FloatToU16(num, den) == IF num <= 0 THEN 0 ELSE Min(num \div den, 65535)

\* `as i16` of the f32 num/den: truncates toward zero and saturates
FloatToI16(num, den) ==
    IF num <= 0 THEN Max(0 - ((0 - num) \div den), 0 - 32768)
    ELSE Min(num \div den, 32767)

\* the checked arithmetic of a u16 / an i16 leaves the type's range
U16Fault(n) == n < 0 \/ n > 65535

I16Fault(n) == n < (0 - 32768) \/ n > 32767

(******************************* data model ********************************)
\* WindowState::new
NewWindowState(window, frame_window) ==
    [window |-> window, frame_window |-> frame_window,
     x |-> 0, y |-> 0, width |-> 100, height |-> 100, group |-> "Stack"]

\* Tag::new
NewTag == [focus |-> None, windows |-> <<>>]

\* StateHandler::new
NewTags == [t \in TagIndices |-> NewTag]

\* impl From<ConfigDeserialized> for Config: the two sizing fields
ConfigFrom(c) ==
    [spacing |-> Clamp(c.spacing, 0, 1000),
     ratio |-> Clamp(c.ratio, 0, RatioScale)]

\* main: TilingInfo built from the configuration, the screen and the bar
NewTilingInfo(config, screen) ==
    [gap |-> ToU16(config.spacing), ratio |-> config.ratio,
     max_width |-> screen.max_width, max_height |-> screen.max_height,
     bar_height |-> screen.bar_height]

(******************************* sequences *********************************)
\* retain(|w| w.window != id)
RECURSIVE Retain(_, _)
RECURSIVE RetainOthersByFrame(_, _)
RetainOthersByFrame(ws, id) ==
    IF ws = <<>> THEN <<>>
    ELSE IF Head(ws).frame_window # id THEN <<Head(ws)>> \o RetainOthersByFrame(Tail(ws), id)
    ELSE RetainOthersByFrame(Tail(ws), id)

Retain(ws, id) ==
    IF ws = <<>> THEN <<>>
    ELSE IF Head(ws).window # id THEN <<Head(ws)>> \o Retain(Tail(ws), id)
    ELSE Retain(Tail(ws), id)

\* iter().position(|w| w.window == id || w.frame_window == id), 1-based, 0 if none
get_index_of_window(ws, id) ==
    IF \E i \in 1..Len(ws) : ws[i].window = id \/ ws[i].frame_window = id
    THEN CHOOSE i \in 1..Len(ws) :
            /\ (ws[i].window = id \/ ws[i].frame_window = id)
            /\ \A j \in 1..(i - 1) : ~(ws[j].window = id \/ ws[j].frame_window = id)
    ELSE 0

\* iter().position(|w| w.window == id), 1-based, 0 if none
PositionOfWindow(ws, id) ==
    IF \E i \in 1..Len(ws) : ws[i].window = id
    THEN CHOOSE i \in 1..Len(ws) :
            /\ ws[i].window = id
            /\ \A j \in 1..(i - 1) : ws[j].window # id
    ELSE 0

\* StateHandler::get_window_state on the windows of the active tag:
\* the index of the entry found, 0 for None
get_window_state(ws, id) == get_index_of_window(ws, id)

(************************** state mutation API *****************************)
\* the new window would be put in front of the others
add_window_first(tgs, at, w) ==
    [tgs EXCEPT ![at] = [focus |-> w.window, windows |-> <<w>> \o @.windows]]

\* StateHandler::add_window: push to the active tag and focus the new window
add_window(tgs, at, w) ==
    [tgs EXCEPT ![at] = [focus |-> w.window, windows |-> Append(@.windows, w)]]

\* the focus is left as it was
keep_tag_focus(tgs, at) == tgs

\* the focus would go to the first window of the list
set_tag_focus_to_first(tgs, at) ==
    [tgs EXCEPT ![at].focus =
        IF tgs[at].windows = <<>> THEN None ELSE tgs[at].windows[1].window]

\* StateHandler::set_tag_focus_to_master: focus the last window, None if empty
set_tag_focus_to_master(tgs, at) ==
    [tgs EXCEPT ![at].focus =
        IF tgs[at].windows = <<>> THEN None
        ELSE tgs[at].windows[Len(tgs[at].windows)].window]

\* only Floating windows would be kept out of the tiling
ExemptFloatingOnly(w) == w.group = "Floating"

\* the groups set_last_master_others_stack leaves alone
Exempt(w) == w.group = "Floating" \/ w.group = "Fullscreen"

\* the last window is made Master without the others being reset to Stack
set_last_master_only(ws) ==
    IF ws = <<>> \/ Exempt(ws[Len(ws)]) THEN ws
    ELSE [ws EXCEPT ![Len(ws)].group = "Master"]

\* StateHandler::set_last_master_others_stack on the windows of the active tag
set_last_master_others_stack(ws) ==
    LET reset == [i \in 1..Len(ws) |->
                    IF Exempt(ws[i]) THEN ws[i] ELSE [ws[i] EXCEPT !.group = "Stack"]]
        n == Len(ws)
    IN  IF n = 0 THEN reset
        ELSE IF Exempt(reset[n]) THEN reset
        ELSE [reset EXCEPT ![n].group = "Master"]

\* len() - 1 without the clamp, below zero on an empty list
StackCountUnclamped(ws) == Len(ws) - 1

\* tile_windows: len().clamp(1, 100) - 1
StackCount(ws) == Clamp(Len(ws), 1, 100) - 1

\* max_height as usize / stack_count (taken only when stack_count is not 0)
StackSlot(sc, tl) == IF sc = 0 THEN 0 ELSE tl.max_height \div sc

\* Master arm: the width when every window would be the Master's only company
MasterWidthAlways(sc, tl) == ToU16(tl.max_width - ToU16(tl.gap * 2))

\* Master arm: w.width, in wrapping arithmetic
MasterWidth(sc, tl) ==
    IF sc = 0 THEN ToU16(tl.max_width - ToU16(tl.gap * 2))
    ELSE FloatToU16(tl.max_width * (RatioScale - tl.ratio) - tl.gap * 2 * RatioScale,
                    RatioScale)

\* Master arm: w.height, in wrapping arithmetic
MasterHeight(tl) == ToU16(tl.max_height - ToU16(tl.gap * 2) - tl.bar_height)

\* Stack arm: w.x
StackX(tl) == FloatToI16(tl.max_width * (RatioScale - tl.ratio), RatioScale)

\* Stack arm: w.y for the window at 0-based list index i
StackY(i, sc, tl) ==
    IF i = 0
    THEN ToI16(ToI16(i * StackSlot(sc, tl) + tl.gap) + ToI16(tl.bar_height))
    ELSE ToI16(i * StackSlot(sc, tl))

\* Stack arm: w.width, in wrapping arithmetic
StackWidth(tl) == ToU16(FloatToU16(tl.max_width * tl.ratio, RatioScale) - tl.gap)

\* Stack arm: the height when no window takes the inset under the bar
StackHeightNoInset(i, sc, tl) == ToU16(ToU16(StackSlot(sc, tl)) - tl.gap)

\* Stack arm: w.height for the window at 0-based list index i, wrapping
StackHeight(i, sc, tl) ==
    IF i = 0
    THEN ToU16(ToU16(StackSlot(sc, tl)) - ToU16(tl.gap * 2) - tl.bar_height)
    ELSE ToU16(ToU16(StackSlot(sc, tl)) - tl.gap)

\* tile_windows, the arm taken for the window w at 0-based list index i:
\* the value each field gets in wrapping arithmetic
TileOne(w, i, sc, tl) ==
    CASE w.group = "Master" ->
            [w EXCEPT !.x = ToI16(tl.gap),
                      !.y = ToI16(ToI16(tl.gap) + ToI16(tl.bar_height)),
                      !.width = MasterWidth(sc, tl),
                      !.height = MasterHeight(tl)]
      [] w.group = "Stack" ->
            [w EXCEPT !.x = StackX(tl),
                      !.y = StackY(i, sc, tl),
                      !.width = StackWidth(tl),
                      !.height = StackHeight(i, sc, tl)]
      [] w.group = "Floating" -> w
      [] w.group = "Fullscreen" ->
            [w EXCEPT !.x = 0, !.y = 0, !.width = tl.max_width, !.height = tl.max_height]

\* tile_windows, the arm taken for the window w at 0-based list index i:
\* "divzero" when it divides by a zero stack_count, "overflow" when a checked
\* u16 or i16 operation leaves the range of its type, "none" otherwise
TileOneFault(w, i, sc, tl) ==
    CASE w.group = "Master" ->
            IF \/ I16Fault(ToI16(tl.gap) + ToI16(tl.bar_height))
               \/ U16Fault(tl.gap * 2)
               \/ (sc = 0 /\ U16Fault(tl.max_width - ToU16(tl.gap * 2)))
               \/ U16Fault(tl.max_height - ToU16(tl.gap * 2))
               \/ U16Fault(tl.max_height - ToU16(tl.gap * 2) - tl.bar_height)
            THEN "overflow" ELSE "none"
      [] w.group = "Stack" ->
            IF sc = 0 THEN "divzero"
            ELSE IF \/ (i = 0 /\ I16Fault(ToI16(i * StackSlot(sc, tl) + tl.gap)
                                            + ToI16(tl.bar_height)))
                    \/ U16Fault(FloatToU16(tl.max_width * tl.ratio, RatioScale) - tl.gap)
                    \/ (i = 0 /\ U16Fault(tl.gap * 2))
                    \/ (i = 0 /\ U16Fault(ToU16(StackSlot(sc, tl)) - ToU16(tl.gap * 2)))
                    \/ (i = 0 /\ U16Fault(ToU16(StackSlot(sc, tl)) - ToU16(tl.gap * 2)
                                            - tl.bar_height))
                    \/ (i # 0 /\ U16Fault(ToU16(StackSlot(sc, tl)) - tl.gap))
            THEN "overflow" ELSE "none"
      [] OTHER -> "none"

\* StateHandler::tile_windows when no operation traps (wrapping arithmetic)
tile_windows(ws, tl) ==
    [i \in 1..Len(ws) |-> TileOne(ws[i], i - 1, StackCount(ws), tl)]

\* the 1-based index of the first window whose arm faults, 0 if none does
FirstFault(ws, tl) ==
    LET bad == {i \in 1..Len(ws) : TileOneFault(ws[i], i - 1, StackCount(ws), tl) # "none"}
    IN  IF bad = {} THEN 0 ELSE CHOOSE i \in bad : \A j \in bad : i <= j

\* the fault the tiling pass runs into first, "none" if it completes
TileFault(ws, tl) ==
    IF FirstFault(ws, tl) = 0 THEN "none"
    ELSE TileOneFault(ws[FirstFault(ws, tl)], FirstFault(ws, tl) - 1, StackCount(ws), tl)

\* StateHandler::tile_windows cut short by a panic: the windows before the
\* faulting one are tiled, the rest are as they were
tile_windows_panicked(ws, tl) ==
    [i \in 1..Len(ws) |->
        IF i < FirstFault(ws, tl) THEN TileOne(ws[i], i - 1, StackCount(ws), tl) ELSE ws[i]]

\* the windows would be tiled by the groups they had before the groups are set
refresh_tiles_first(ws, tl) == set_last_master_others_stack(tile_windows(ws, tl))

\* StateHandler::refresh on the windows of the active tag
refresh(ws, tl) == tile_windows(set_last_master_others_stack(ws), tl)

\* Vec::swap
SwapAt(ws, i, j) == [ws EXCEPT ![i] = ws[j], ![j] = ws[i]]

\* without the `len > 1` test windows[len - 2] is indexed on a list of one
swap_master_panics_short(tag) == tag.focus # None /\ Len(tag.windows) <= 1

\* StateHandler::swap_master indexes windows[len - 1] of an empty list
swap_master_panics(tag) == tag.focus # None /\ Len(tag.windows) = 0

\* the focused window always changes places with the last window
swap_focus_with_last(tag) ==
    IF tag.focus = None \/ Len(tag.windows) = 0 THEN tag
    ELSE LET index_f == get_index_of_window(tag.windows, tag.focus)
         IN  IF index_f = 0 THEN tag
             ELSE [tag EXCEPT !.windows = SwapAt(@, index_f, Len(tag.windows))]

\* StateHandler::swap_master on the active tag (when it does not panic)
swap_master(tag) ==
    IF tag.focus = None \/ Len(tag.windows) = 0 THEN tag
    ELSE LET len == Len(tag.windows)
             last_w == tag.windows[len].window
             master == IF last_w = tag.focus /\ len > 1
                       THEN tag.windows[len - 1].window ELSE last_w
             index_f == get_index_of_window(tag.windows, tag.focus)
             index_m == get_index_of_window(tag.windows, master)
         IN  IF index_f = 0 \/ index_m = 0 THEN tag
             ELSE [tag EXCEPT !.windows = SwapAt(@, index_f, index_m)]

\* the new index is held inside the list instead of wrapping around
switch_focus_clamped(tag, change) ==
    IF tag.focus = None THEN tag
    ELSE LET pos == PositionOfWindow(tag.windows, tag.focus)
         IN  IF pos = 0 THEN tag
             ELSE [tag EXCEPT !.focus =
                     tag.windows[Clamp(pos + change, 1, Len(tag.windows))].window]

\* StateHandler::switch_focus_next on the active tag
switch_focus_next(tag, change) ==
    IF tag.focus = None THEN tag
    ELSE LET pos == PositionOfWindow(tag.windows, tag.focus)
         IN  IF pos = 0 THEN tag
             ELSE [tag EXCEPT !.focus =
                     tag.windows[RemEuclid((pos - 1) + change, Len(tag.windows)) + 1].window]

(*************************** inputs of the model ***************************)
\* the screen hematite starts on, with the bar height its font gives
DefaultScreen == [max_width |-> 1920, max_height |-> 1080, bar_height |-> 18]

\* the same screen under a bar drawn with a font 400 high: the bar is as high
\* as the font's metrics times 3 / 2
TallBarScreen == [max_width |-> 1920, max_height |-> 1080, bar_height |-> 600]

\* ConfigDeserialized::default: the sizing section
DefaultConfig == [spacing |-> SPACING, ratio |-> RATIO]

\* sizing sections of a configuration file, in and out of the accepted ranges
TileConfigs ==
    { DefaultConfig,
      [spacing |-> SPACING, ratio |-> 0],
      [spacing |-> SPACING, ratio |-> 120],
      [spacing |-> 5000, ratio |-> RATIO] }

TileWindows == 11..(10 + MaxTiled)

\* the hotkey table: tag numbers of SwitchTag / MoveWindow, and the changes of
\* ChangeRatio and NextFocus
TagKeys == {1, 2}

RatioChanges == {0 - 40, 40, 0 - 1000, 1000}

FocusChanges == {0 - 1, 1}

(******************************** events ***********************************)
\* the main loop would stop at the first handler that returns an error
LoopRunsUntilError == ~crashed /\ last.ok /\ (loop.followed \/ UNCHANGED loop)

\* loop holds the two threads of main where loop.followed is set: timer and
\* main are the places the timer thread and the main thread are at, channel
\* the ticks sent and not yet received, events the events the connection
\* holds for wait_for_event and poll_for_event, and stale whether a tick was
\* sent that no repaint of the bar has followed.  Where loop.followed is not
\* set only the handlers are of interest and loop keeps its value.
NewLoop(followed) ==
    [followed |-> followed, timer |-> "send", main |-> "try_recv",
     channel |-> 0, events |-> 0, stale |-> FALSE]

\* main, the event loop: it logs the error a handler returns and goes on to
\* the next event; only a panic ends it
LoopRuns == ~crashed /\ (loop.followed \/ UNCHANGED loop)

\* what the handling of the last event came to: whether the handler returned
\* Ok, whether it ended in StateHandler::refresh, and the fault of its tiling
Done(ok, refreshed, fault) ==
    [ok |-> ok, refreshed |-> refreshed, fault |-> fault]

\* a handler returns before it mutated anything
Returned(ok) ==
    /\ last' = Done(ok, FALSE, "none")
    /\ UNCHANGED <<tags, active_tag, tiling, xfocus, next_id, mapped, crashed>>

\* a handler returns an error after its mutation and before its refresh
Aborted(tgs) ==
    /\ tags' = tgs
    /\ last' = Done(FALSE, FALSE, "none")
    /\ UNCHANGED <<xfocus, crashed>>

\* EventHandler::refresh_focus: the input focus it asks the server for
refresh_focus(tgs, at) ==
    IF tgs[at].focus = None THEN PointerRoot
    ELSE LET i == get_window_state(tgs[at].windows, tgs[at].focus)
         IN  IF i = 0 THEN xfocus ELSE tgs[at].windows[i].window

\* the refresh would lay the windows out before it assigns their groups
EventRefreshLayoutFirst(tgs, at, tl, fail) ==
    /\ fail = "none"
    /\ crashed' = FALSE
    /\ last' = Done(TRUE, TRUE, "none")
    /\ xfocus' = refresh_focus(tgs, at)
    /\ tags' = [tgs EXCEPT ![at].windows =
                   set_last_master_others_stack(tile_windows(tgs[at].windows, tl))]

\* EventHandler::refresh, closing the handling of event ev: refresh_focus,
\* StateHandler::refresh, config_tag, draw_bar, log_state.  A trapping
\* operation of the tiling pass panics (overflow checks on) or wraps
\* (overflow checks off); a division by zero always panics.
EventRefresh(tgs, at, tl, fail) ==
    LET ws == set_last_master_others_stack(tgs[at].windows)
        fault == TileFault(ws, tl)
    IN  \/ /\ fail = "refresh_focus"
           /\ crashed' = FALSE
           /\ last' = Done(FALSE, FALSE, "none")
           /\ xfocus' \in {xfocus, refresh_focus(tgs, at)}
           /\ tags' = tgs
        \/ /\ fail # "refresh_focus"
           /\ crashed' = FALSE
           /\ last' = Done(fail = "none", TRUE, fault)
           /\ fault \in {"none", "overflow"}
           /\ xfocus' = refresh_focus(tgs, at)
           /\ tags' = [tgs EXCEPT ![at].windows = tile_windows(ws, tl)]
        \/ /\ fail # "refresh_focus"
           /\ crashed' = TRUE
           /\ last' = Done(FALSE, FALSE, fault)
           /\ fault # "none"
           /\ xfocus' = refresh_focus(tgs, at)
           /\ tags' = [tgs EXCEPT ![at].windows = tile_windows_panicked(ws, tl)]

RefreshFails == {"none", "refresh_focus", "config_tag"}

\* mapped.frames holds the frames the manager's map, unmap and destroy calls
\* have left on the screen; it is followed where mapped.followed is set and
\* left empty where the screen is of no interest
Shown(frames) == IF mapped.followed THEN [mapped EXCEPT !.frames = frames] ELSE mapped

\* the frames of a list of windows
FramesOf(ws) == {ws[i].frame_window : i \in 1..Len(ws)}

\* ConnectionActionExt::map, of every window of a set of frames: the frame
\* and the client window in it are mapped
map(shown, frames) == shown \cup frames

\* ConnectionActionExt::unmap, of every window of a set of frames: the client
\* window and its frame are unmapped
unmap(shown, frames) == shown \ frames

\* ConnectionActionExt::destroy_frame_window of the entry get_window_state
\* finds for id: its frame is destroyed and no longer on the screen
destroy_frame_window(shown, ws, id) ==
    shown \ {ws[get_window_state(ws, id)].frame_window}

\* ConnectionStateExt::add_window, the calls it makes to the server in the
\* order it makes them; each one ends with `?`, so the first that returns an
\* error ends add_window there
add_window_calls ==
    <<"create_window", "change_window_attributes", "net_add_allowed_actions",
      "net_add_frame_extents", "wm_activate_window", "grab_server",
      "change_save_set", "reparent_window", "map_window_frame",
      "map_window_client", "ungrab_server">>

\* the calls add_window has made when call number failing returns an error;
\* all of them when failing is 0
CallsMade(failing) ==
    IF failing = 0 THEN add_window_calls ELSE SubSeq(add_window_calls, 1, failing - 1)

Made(call, failing) ==
    \E i \in 1..Len(CallsMade(failing)) : CallsMade(failing)[i] = call

\* ConnectionStateExt::add_window, what it leaves on the server m for the
\* new frame: the frame is on the screen once it was mapped, and the server
\* is grabbed from grab_server until ungrab_server
add_window_on_server(m, frame, failing) ==
    IF ~m.followed THEN m
    ELSE [m EXCEPT !.frames = IF Made("map_window_frame", failing)
                              THEN map(@, {frame}) ELSE @,
                   !.grabbed = IF Made("ungrab_server", failing) THEN FALSE
                               ELSE IF Made("grab_server", failing) THEN TRUE
                               ELSE @]

\* the protocol calls of handle_map_request that can return an error
MapFails == RefreshFails \cup {"generate_id", "add_window"}

\* EventHandler::handle_map_request; cap bounds the ids generate_id hands out
MapRequest(w, fail, cap) ==
    /\ LoopRuns
    /\ IF get_window_state(tags[active_tag].windows, w) # 0
       THEN fail = "none" /\ Returned(TRUE)
       ELSE /\ next_id < cap
            /\ fail \in MapFails
            /\ IF fail = "generate_id" THEN Returned(FALSE)
               ELSE IF fail = "add_window"
               THEN /\ next_id' = next_id + 1
                    /\ last' = Done(FALSE, FALSE, "none")
                    /\ \E failing \in 1..Len(add_window_calls) :
                          mapped' = add_window_on_server(mapped, 21 + next_id, failing)
                    /\ UNCHANGED <<tags, active_tag, tiling, xfocus, crashed>>
               ELSE /\ next_id' = next_id + 1
                    /\ mapped' = add_window_on_server(mapped, 21 + next_id, 0)
                    /\ EventRefresh(add_window(tags, active_tag, NewWindowState(w, 21 + next_id)),
                          active_tag, tiling, fail)
                    /\ UNCHANGED <<active_tag, tiling>>

\* the protocol calls of handle_unmap_notify that can return an error
UnmapFails == RefreshFails \cup {"destroy_frame_window", "net_update_client_list"}

\* handle_unmap_notify: the list it hands to net_update_client_list, the
\* window ids of the active tag as they are when the call is made, which is
\* after destroy_frame_window and before retain()
net_update_client_list(tgs, at) == [i \in 1..Len(tgs[at].windows) |-> tgs[at].windows[i].window]

\* EventHandler::handle_unmap_notify
UnmapNotify(id, fail) ==
    /\ LoopRuns
    /\ IF get_window_state(tags[active_tag].windows, id) = 0
       THEN fail = "none" /\ Returned(TRUE)
       ELSE IF fail = "destroy_frame_window" THEN Returned(FALSE)
       ELSE IF fail = "net_update_client_list"
       THEN /\ mapped' = Shown(destroy_frame_window(mapped.frames, tags[active_tag].windows, id))
            /\ last' = Done(FALSE, FALSE, "none")
            /\ UNCHANGED <<tags, active_tag, tiling, xfocus, next_id, crashed>>
       ELSE /\ fail \in RefreshFails
            /\ mapped' = Shown(destroy_frame_window(mapped.frames, tags[active_tag].windows, id))
            /\ EventRefresh(set_tag_focus_to_master(
                      [tags EXCEPT ![active_tag].windows = Retain(@, id)], active_tag),
                  active_tag, tiling, fail)
            /\ UNCHANGED <<active_tag, tiling, next_id>>

\* the focus of the active tag after one `if let Some(w) = get_window_state(id)`
\* the pointer's window would be looked up among the client ids only
EnterFocusClientOnly(tag, id) ==
    IF \A i \in 1..Len(tag.windows) : tag.windows[i].window # id THEN tag
    ELSE [tag EXCEPT !.focus = id]

EnterFocus(tag, id) ==
    IF get_window_state(tag.windows, id) = 0 THEN tag
    ELSE [tag EXCEPT !.focus = tag.windows[get_window_state(tag.windows, id)].window]

\* EventHandler::handle_enter
EnterNotify(child, event, fail) ==
    /\ LoopRuns
    /\ EventRefresh([tags EXCEPT ![active_tag] = EnterFocus(EnterFocus(@, child), event)],
          active_tag, tiling, fail)
    /\ UNCHANGED <<active_tag, tiling, next_id, mapped>>

\* the requested geometry would be adopted whatever the group is
handle_config_adopts_always(window, event) ==
    [window EXCEPT !.x = event.x, !.y = event.y,
                   !.width = event.width, !.height = event.height]

\* ConnectionStateExt::handle_config: the window state it leaves for a request
handle_config(window, event) ==
    IF window.group = "Floating"
    THEN [window EXCEPT !.x = event.x, !.y = event.y,
                        !.width = event.width, !.height = event.height]
    ELSE window

\* ConnectionStateExt::config_window_from_state: the configure calls it makes,
\* first for the frame and then for the client window inside it
config_window_from_state(window) ==
    << [to |-> window.frame_window,
        geometry |-> <<window.x, window.y, window.width, window.height>>],
       [to |-> window.window,
        geometry |-> <<0, 0, window.width, window.height>>] >>

\* ConnectionStateExt::handle_config: its configure calls in the order it
\* makes them, the request as it came and then the window state it leaves
handle_config_calls(window, event) ==
    << [to |-> window.window,
        geometry |-> <<event.x, event.y, event.width, event.height>>] >>
    \o config_window_from_state(handle_config(window, event))

\* the x, y, width and height a ConfigureRequestEvent asks for
ConfigRequests ==
    { [x |-> 5, y |-> 7, width |-> 300, height |-> 200],
      [x |-> 0 - 3, y |-> 0, width |-> 1, height |-> 65535] }

\* EventHandler::handle_config: it holds the state by shared reference
ConfigureRequest(w, fail) ==
    /\ LoopRuns
    /\ IF get_window_state(tags[active_tag].windows, w) = 0
       THEN fail = "none" /\ Returned(TRUE)
       ELSE Returned(fail = "none")

\* every data word 0 but 0 would set the window Fullscreen
ClientMessageAnyValue(w, data0, type_, first_property, fail) ==
    /\ LoopRuns
    /\ LET ws == tags[active_tag].windows
           i == get_window_state(ws, w)
       IN  IF \/ first_property = "0"
              \/ type_ # "_NET_WM_STATE"
              \/ first_property # "_NET_WM_STATE_FULLSCREEN"
              \/ i = 0
           THEN fail = "none" /\ Returned(TRUE)
           ELSE LET group == IF data0 = 0 THEN "Stack" ELSE "Fullscreen"
                    tgs == [tags EXCEPT ![active_tag].windows[i].group = group]
                IN  /\ EventRefresh(tgs, active_tag, tiling, fail)
                    /\ UNCHANGED <<active_tag, tiling, next_id, mapped>>

\* EventHandler::handle_client_message
ClientMessage(w, data0, type_, first_property, fail) ==
    /\ LoopRuns
    /\ LET ws == tags[active_tag].windows
           i == get_window_state(ws, w)
       IN  IF \/ first_property = "0"
              \/ type_ # "_NET_WM_STATE"
              \/ first_property # "_NET_WM_STATE_FULLSCREEN"
              \/ i = 0
              \/ data0 \notin {0, 1}
           THEN fail = "none" /\ Returned(TRUE)
           ELSE LET group == IF data0 = 0 THEN "Stack" ELSE "Fullscreen"
                    tgs == [tags EXCEPT ![active_tag].windows[i].group = group]
                IN  /\ IF fail = "set_fullscreen"
                       THEN Aborted(tgs)
                       ELSE EventRefresh(tgs, active_tag, tiling, fail)
                    /\ UNCHANGED <<active_tag, tiling, next_id, mapped>>

(******************************* key presses *******************************)
\* EventHandler::unmap_tag: every window of the tag is unmapped
unmap_tag(shown, tgs, at) == unmap(shown, FramesOf(tgs[at].windows))

\* EventHandler::map_tag: every window of the tag is mapped
map_tag(shown, tgs, at) == map(shown, FramesOf(tgs[at].windows))

\* the tag is switched without asking whether it is the active one already
ChangeActiveTagUnguarded(tag, fail) ==
    IF fail = "unmap_tag" THEN Returned(FALSE)
    ELSE IF fail \in {"map_tag", "net_update_active_desktop"}
    THEN /\ active_tag' = tag
         /\ mapped' = Shown(IF fail = "map_tag"
                             THEN unmap_tag(mapped.frames, tags, active_tag)
                             ELSE map_tag(unmap_tag(mapped.frames, tags, active_tag), tags, tag))
         /\ last' = Done(FALSE, FALSE, "none")
         /\ UNCHANGED <<tags, tiling, xfocus, next_id, crashed>>
    ELSE /\ active_tag' = tag
         /\ mapped' = Shown(map_tag(unmap_tag(mapped.frames, tags, active_tag), tags, tag))
         /\ EventRefresh(tags, tag, tiling, fail)
         /\ UNCHANGED <<tiling, next_id>>

\* a panic ends the process: out of an index past the end of `tags`
\* ("tag_index") or out of checked arithmetic ("sub_overflow", "add_overflow")
Panicked(fault) ==
    /\ crashed' = TRUE
    /\ last' = Done(FALSE, FALSE, fault)

\* usize::MAX, what 0 - 1 wraps to; it stands here as the largest integer of
\* the model, far past the end of `tags` like the value it stands for
UsizeMax == 2147483647

\* EventHandler::change_active_tag, then the refresh closing handle_keypress;
\* with a tag past the end of `tags`, map_tag indexes `tags` and panics
ChangeActiveTag(tag, fail) ==
    IF active_tag = tag
    THEN /\ fail \in RefreshFails
         /\ UNCHANGED <<active_tag, tiling, next_id, mapped>>
         /\ EventRefresh(tags, active_tag, tiling, fail)
    ELSE IF fail = "unmap_tag" THEN Returned(FALSE)
    ELSE IF tag \notin TagIndices
    THEN /\ fail = "none"
         /\ active_tag' = tag
         /\ mapped' = Shown(unmap_tag(mapped.frames, tags, active_tag))
         /\ Panicked("tag_index")
         /\ UNCHANGED <<tags, tiling, xfocus, next_id>>
    ELSE IF fail \in {"map_tag", "net_update_active_desktop"}
    THEN /\ active_tag' = tag
         /\ mapped' = Shown(IF fail = "map_tag"
                             THEN unmap_tag(mapped.frames, tags, active_tag)
                             ELSE map_tag(unmap_tag(mapped.frames, tags, active_tag), tags, tag))
         /\ last' = Done(FALSE, FALSE, "none")
         /\ UNCHANGED <<tags, tiling, xfocus, next_id, crashed>>
    ELSE /\ active_tag' = tag
         /\ mapped' = Shown(map_tag(unmap_tag(mapped.frames, tags, active_tag), tags, tag))
         /\ EventRefresh(tags, tag, tiling, fail)
         /\ UNCHANGED <<tiling, next_id>>

TagSwitchFails == RefreshFails \cup {"unmap_tag", "map_tag", "net_update_active_desktop"}

\* changes of NextTag in the hotkey table that lead back to the active tag
SameTagChanges == {0 - 9, 9}

\* handle_keypress, HotkeyAction::SwitchTag(n)
KeySwitchTag(n, fail) ==
    /\ LoopRuns
    /\ IF n = 0
       THEN \/ /\ fail = "none"
               /\ Panicked("sub_overflow")
               /\ UNCHANGED <<tags, active_tag, tiling, xfocus, next_id, mapped>>
            \/ ChangeActiveTag(UsizeMax, fail)
       ELSE ChangeActiveTag(n - 1, fail)

\* handle_keypress, HotkeyAction::NextTag(change)
KeyNextTag(change, fail) ==
    /\ LoopRuns
    /\ LET sum == ToI16(active_tag) + change
       IN  IF I16Fault(sum)
           THEN \/ /\ fail = "none"
                   /\ Panicked("add_overflow")
                   /\ UNCHANGED <<tags, active_tag, tiling, xfocus, next_id, mapped>>
                \/ ChangeActiveTag(RemEuclid(ToI16(sum), 9), fail)
           ELSE ChangeActiveTag(RemEuclid(sum, 9), fail)

\* move_window: the desktop value it hands to net_update_window_desktop for
\* the window it moved from the active tag `at` to `tag`
net_update_window_desktop(at, tag) == at

\* the window would be pushed to the target tag and stay in the active one
move_window_copies(tgs, at, tag, focus_window) ==
    [tgs EXCEPT ![tag].windows =
        Append(@, tgs[at].windows[get_window_state(tgs[at].windows, focus_window)])]

\* the moved window would take the focus of the tag it is moved to
move_window_focuses(tgs, at, tag, focus_window) ==
    LET i == get_window_state(tgs[at].windows, focus_window)
        pushed == [tgs EXCEPT ![tag].windows = Append(@, tgs[at].windows[i]),
                              ![tag].focus = tgs[at].windows[i].window]
        retained == [pushed EXCEPT ![at].windows = Retain(@, focus_window)]
    IN  set_tag_focus_to_master(retained, at)

\* EventHandler::move_window: the tags it leaves when it moves the window
\* the server reports as focused
move_window(tgs, at, tag, focus_window) ==
    LET i == get_window_state(tgs[at].windows, focus_window)
        pushed == [tgs EXCEPT ![tag].windows = Append(@, tgs[at].windows[i])]
        retained == [pushed EXCEPT ![at].windows = Retain(@, focus_window)]
    IN  set_tag_focus_to_master(retained, at)

\* move_window: the frame of the entry get_window_state finds for the focused
\* window, which conn.unmap takes off the screen
MovedFrame(tgs, at, focus_window) ==
    tgs[at].windows[get_window_state(tgs[at].windows, focus_window)].frame_window

\* `n - 1` of a usize n: 0 - 1 panics where overflow is checked and wraps to
\* usize::MAX where it is not
SubOverflow == 0 - 1

MoveWindowTag(n) == IF n = 0 THEN {SubOverflow, UsizeMax} ELSE {n - 1}

\* handle_keypress, HotkeyAction::MoveWindow(n)
KeyMoveWindow(n, fail) ==
    /\ LoopRuns
    /\ \E tag \in MoveWindowTag(n) :
           IF tag = SubOverflow
           THEN /\ fail = "none"
                /\ Panicked("sub_overflow")
                /\ UNCHANGED <<tags, active_tag, tiling, xfocus, next_id, mapped>>
           ELSE IF active_tag = tag \/ get_window_state(tags[active_tag].windows, xfocus) = 0
           THEN IF active_tag # tag /\ fail = "get_focus"
                THEN Returned(FALSE)
                ELSE /\ fail \in RefreshFails
                     /\ EventRefresh(tags, active_tag, tiling, fail)
                     /\ UNCHANGED <<active_tag, tiling, next_id, mapped>>
           ELSE IF fail \in {"get_focus", "unmap"} THEN Returned(FALSE)
           ELSE IF tag \notin TagIndices
           THEN /\ fail = "none"
                /\ mapped' = Shown(unmap(mapped.frames, {MovedFrame(tags, active_tag, xfocus)}))
                /\ Panicked("tag_index")
                /\ UNCHANGED <<tags, active_tag, tiling, xfocus, next_id>>
           ELSE /\ IF fail = "net_update_window_desktop"
                   THEN Aborted(move_window(tags, active_tag, tag, xfocus))
                   ELSE EventRefresh(move_window(tags, active_tag, tag, xfocus),
                            active_tag, tiling, fail)
                /\ mapped' = Shown(unmap(mapped.frames, {MovedFrame(tags, active_tag, xfocus)}))
                /\ UNCHANGED <<active_tag, tiling, next_id>>

MoveFails == RefreshFails \cup {"get_focus", "unmap", "net_update_window_desktop"}

\* handle_keypress, HotkeyAction::Spawn(command)
KeySpawn(fail) ==
    /\ LoopRuns
    /\ EventRefresh(tags, active_tag, tiling, fail)
    /\ UNCHANGED <<active_tag, tiling, next_id, mapped>>

\* handle_keypress, HotkeyAction::ExitFocusedWindow
KeyExitFocusedWindow(fail) ==
    /\ LoopRuns
    /\ IF tags[active_tag].focus = None
       THEN fail = "none" /\ Returned(TRUE)
       ELSE IF fail = "kill_focus" THEN Returned(FALSE)
       ELSE /\ EventRefresh(tags, active_tag, tiling, fail)
            /\ UNCHANGED <<active_tag, tiling, next_id, mapped>>

\* the sum is clamped to the range the configuration accepts
ChangeRatioConfigRange(ratio, change) == Clamp(ratio + change, 0, RatioScale)

\* handle_keypress, HotkeyAction::ChangeRatio(change): the new ratio
ChangeRatio(ratio, change) == Clamp(ratio + change, 15, 85)

KeyChangeRatio(change, fail) ==
    /\ LoopRuns
    /\ tiling' = [tiling EXCEPT !.ratio = ChangeRatio(@, change)]
    /\ EventRefresh(tags, active_tag, tiling', fail)
    /\ UNCHANGED <<active_tag, next_id, mapped>>

\* handle_keypress, HotkeyAction::NextFocus(change)
KeyNextFocus(change, fail) ==
    /\ LoopRuns
    /\ EventRefresh([tags EXCEPT ![active_tag] = switch_focus_next(@, change)],
          active_tag, tiling, fail)
    /\ UNCHANGED <<active_tag, tiling, next_id, mapped>>

\* handle_keypress, HotkeyAction::SwapMaster
KeySwapMaster(fail) ==
    /\ LoopRuns
    /\ IF swap_master_panics(tags[active_tag])
       THEN /\ fail = "none"
            /\ crashed' = TRUE
            /\ last' = Done(FALSE, FALSE, "none")
            /\ UNCHANGED <<tags, active_tag, tiling, xfocus, next_id, mapped>>
       ELSE /\ EventRefresh([tags EXCEPT ![active_tag] = swap_master(@)],
                  active_tag, tiling, fail)
            /\ UNCHANGED <<active_tag, tiling, next_id, mapped>>

\* handle_keypress for a key without a registered hotkey
KeyUnbound ==
    /\ LoopRuns
    /\ Returned(TRUE)

(***************************** specification *******************************)
InitLoop(configs, screens, followed, threads) ==
    /\ loop = NewLoop(threads)
    /\ tags = NewTags
    /\ active_tag = 0
    /\ \E c \in configs, s \in screens : tiling = NewTilingInfo(ConfigFrom(c), s)
    /\ xfocus = PointerRoot
    /\ next_id = 0
    /\ mapped = [followed |-> followed, frames |-> {}, grabbed |-> FALSE]
    /\ crashed = FALSE
    /\ last = Done(TRUE, FALSE, "none")

InitState(configs, screens, followed) == InitLoop(configs, screens, followed, FALSE)

InitWith(configs, screens) == InitState(configs, screens, FALSE)

Init == InitWith({DefaultConfig}, {DefaultScreen})

\* the same start, with the screen followed
InitScreen == InitState({DefaultConfig}, {DefaultScreen}, TRUE)

\* EnterNotify carries the window the pointer entered (a client window, a
\* frame or the root) and the child of it that holds the pointer, if any
EnterInputs ==
    (({None} \cup Windows) \X (FrameIds \cup {PointerRoot})) \cup ({None} \X Windows)

\* a client message is told by its type atom and the atom in data word 1
OtherMessageKinds ==
    { <<"_NET_WM_STATE", "_NET_WM_STATE_ABOVE">>,
      <<"WM_PROTOCOLS", "_NET_WM_STATE_FULLSCREEN">>,
      <<"_NET_WM_STATE", "0">> }

\* Spec: every handler, no failing protocol call, the default configuration
\* and a hotkey table without ChangeRatio and NextTag
Next ==
    \/ \E w \in Windows : MapRequest(w, "none", MaxFrames)
    \/ \E id \in Windows \cup FrameIds : UnmapNotify(id, "none")
    \/ \E e \in EnterInputs : EnterNotify(e[1], e[2], "none")
    \/ \E w \in Windows : ConfigureRequest(w, "none")
    \/ \E w \in Windows \cup FrameIds, data0 \in 0..2 :
          ClientMessage(w, data0, "_NET_WM_STATE", "_NET_WM_STATE_FULLSCREEN", "none")
    \/ \E w \in Windows, k \in OtherMessageKinds :
          ClientMessage(w, 1, k[1], k[2], "none")
    \/ \E n \in TagKeys : KeySwitchTag(n, "none")
    \/ \E n \in TagKeys : KeyMoveWindow(n, "none")
    \/ KeySpawn("none")
    \/ KeyExitFocusedWindow("none")
    \/ \E c \in FocusChanges : KeyNextFocus(c, "none")
    \/ KeySwapMaster("none")
    \/ KeyUnbound

Spec == Init /\ [][Next]_vars

\* SpecTile: the tiling pass on one tag, from every configuration of
\* TileConfigs, with ChangeRatio in the hotkey table
InitTile == InitWith(TileConfigs, {DefaultScreen})

NextTile ==
    \/ \E w \in TileWindows : MapRequest(w, "none", MaxTiled)
    \/ \E w \in TileWindows : UnmapNotify(w, "none")
    \/ \E w \in TileWindows, data0 \in 0..1 :
          ClientMessage(w, data0, "_NET_WM_STATE", "_NET_WM_STATE_FULLSCREEN", "none")
    \/ \E c \in RatioChanges : KeyChangeRatio(c, "none")

SpecTile == InitTile /\ [][NextTile]_vars

\* SpecLayout: the tiling pass of the default configuration under the usual
\* bar and under a tall one
InitLayout == InitWith({DefaultConfig}, {DefaultScreen, TallBarScreen})

NextLayout ==
    \/ \E w \in TileWindows, data0 \in 0..1 :
          ClientMessage(w, data0, "_NET_WM_STATE", "_NET_WM_STATE_FULLSCREEN", "none")
    \/ \E w \in TileWindows : MapRequest(w, "none", MaxTiled)
    \/ \E w \in TileWindows : UnmapNotify(w, "none")

SpecLayout == InitLayout /\ [][NextLayout]_vars

\* SpecFail: mapping, unmapping and tag switching where any one protocol call
\* of the handler may return an error
NextFail ==
    \/ \E w \in Windows, f \in MapFails : MapRequest(w, f, MaxFrames)
    \/ \E w \in Windows, f \in UnmapFails : UnmapNotify(w, f)
    \/ \E n \in TagKeys, f \in TagSwitchFails : KeySwitchTag(n, f)
    \/ \E c \in SameTagChanges, f \in TagSwitchFails : KeyNextTag(c, f)

SpecFail == Init /\ [][NextFail]_vars

\* SpecFocus: one tag, its windows mapped and unmapped, with NextFocus and
\* SwapMaster in the hotkey table
NextFocus ==
    \/ \E w \in TileWindows : MapRequest(w, "none", MaxTiled)
    \/ \E w \in TileWindows : UnmapNotify(w, "none")
    \/ \E c \in FocusChanges : KeyNextFocus(c, "none")
    \/ KeySwapMaster("none")

SpecFocus == InitScreen /\ [][NextFocus]_vars

\* SpecScreen: every handler as in Spec, with the screen followed
SpecScreen == InitScreen /\ [][Next]_vars

\* SpecMessage: windows mapped, unmapped and hidden by a tag switch, and
\* every client message of Spec
NextMessage ==
    \/ \E w \in Windows : MapRequest(w, "none", MaxFrames)
    \/ \E w \in Windows : UnmapNotify(w, "none")
    \/ \E w \in Windows \cup FrameIds, data0 \in 0..2 :
          ClientMessage(w, data0, "_NET_WM_STATE", "_NET_WM_STATE_FULLSCREEN", "none")
    \/ \E w \in Windows, k \in OtherMessageKinds :
          ClientMessage(w, 1, k[1], k[2], "none")
    \/ \E n \in TagKeys : KeySwitchTag(n, "none")

SpecMessage == Init /\ [][NextMessage]_vars

\* SpecConfig: windows mapped, set Fullscreen and back, hidden by a tag
\* switch, and configure requests for client windows and frames
NextConfig ==
    \/ \E w \in Windows : MapRequest(w, "none", MaxFrames)
    \/ \E w \in Windows, data0 \in 0..1 :
          ClientMessage(w, data0, "_NET_WM_STATE", "_NET_WM_STATE_FULLSCREEN", "none")
    \/ \E w \in Windows \cup FrameIds : ConfigureRequest(w, "none")
    \/ \E n \in TagKeys : KeySwitchTag(n, "none")
    \/ \E c \in FocusChanges : KeyNextFocus(c, "none")

SpecConfig == Init /\ [][NextConfig]_vars

\* SpecMove: windows mapped, focused and moved between the tags of the
\* default hotkey table's first keys
(************************ the timer thread and main ************************)
aggregate == <<tags, active_tag, tiling>>

\* the timer thread, tx.send(1): the tick is put into the channel; the
\* receiver lives as long as main runs, so the send returns Ok
TimerSend ==
    /\ ~crashed
    /\ loop.timer = "send"
    /\ loop.channel < MaxTicks
    /\ loop' = [loop EXCEPT !.timer = "sleep", !.channel = @ + 1, !.stale = TRUE]
    /\ UNCHANGED <<tags, active_tag, tiling, xfocus, next_id, mapped, crashed, last>>

\* the timer thread, thread::sleep: the second is over
TimerSleep ==
    /\ ~crashed
    /\ loop.timer = "sleep"
    /\ loop' = [loop EXCEPT !.timer = "send"]
    /\ UNCHANGED <<tags, active_tag, tiling, xfocus, next_id, mapped, crashed, last>>

\* the window system puts an event into the connection
EventArrives ==
    /\ ~crashed
    /\ loop.events < MaxQueued
    /\ loop' = [loop EXCEPT !.events = @ + 1]
    /\ UNCHANGED <<tags, active_tag, tiling, xfocus, next_id, mapped, crashed, last>>

\* the tick would be consumed by a step that also drops the focus
TryRecvDropsFocus ==
    /\ ~crashed
    /\ loop.main = "try_recv"
    /\ loop' = [loop EXCEPT !.main = "wait_for_event",
                            !.channel = IF @ > 0 THEN @ - 1 ELSE @,
                            !.stale = IF loop.channel > 0 THEN FALSE ELSE @]
    /\ tags' = [tags EXCEPT ![active_tag].focus = None]
    /\ UNCHANGED <<active_tag, tiling, xfocus, next_id, mapped, crashed, last>>

\* main, the head of the outer loop: rx.try_recv() takes one tick if the
\* channel holds one and never waits; a tick taken is answered with draw_bar,
\* which reads the state; then the connection is flushed
TryRecv ==
    /\ ~crashed
    /\ loop.main = "try_recv"
    /\ loop' = [loop EXCEPT !.main = "wait_for_event",
                            !.channel = IF @ > 0 THEN @ - 1 ELSE @,
                            !.stale = IF loop.channel > 0 THEN FALSE ELSE @]
    /\ UNCHANGED <<tags, active_tag, tiling, xfocus, next_id, mapped, crashed, last>>

\* main, conn.wait_for_event(): it returns once the connection holds an
\* event and blocks until then
WaitForEvent ==
    /\ ~crashed
    /\ loop.main = "wait_for_event"
    /\ loop.events > 0
    /\ loop' = [loop EXCEPT !.main = "handle_event", !.events = @ - 1]
    /\ UNCHANGED <<tags, active_tag, tiling, xfocus, next_id, mapped, crashed, last>>

\* main, event_handler.handle_event(&event) of the inner loop: one handler
\* runs from its first statement to its return; the refresh that ends a
\* handler draws the bar
HandleEvent ==
    /\ loop.main = "handle_event"
    /\ \/ \E w \in Windows : MapRequest(w, "none", 1)
       \/ \E w \in Windows : UnmapNotify(w, "none")
       \/ \E n \in TagKeys : KeySwitchTag(n, "none")
    /\ loop' = [loop EXCEPT !.main = "poll_for_event",
                            !.stale = @ /\ ~(last'.ok /\ last'.refreshed)]

\* main, conn.poll_for_event() of the inner loop: the next event if the
\* connection holds one, else back to the head of the outer loop
PollForEvent ==
    /\ ~crashed
    /\ loop.main = "poll_for_event"
    /\ loop' = IF loop.events > 0
               THEN [loop EXCEPT !.main = "handle_event", !.events = @ - 1]
               ELSE [loop EXCEPT !.main = "try_recv"]
    /\ UNCHANGED <<tags, active_tag, tiling, xfocus, next_id, mapped, crashed, last>>

TimerThread == TimerSend \/ TimerSleep

MainThread == TryRecv \/ WaitForEvent \/ HandleEvent \/ PollForEvent

InitThreads == InitLoop({DefaultConfig}, {DefaultScreen}, FALSE, TRUE)

NextThreads ==
    \/ TimerSend
    \/ TimerSleep
    \/ EventArrives
    \/ TryRecv
    \/ WaitForEvent
    \/ HandleEvent
    \/ PollForEvent

\* the scheduler lets each of the two threads run when it can; nothing makes
\* the window system send an event
SpecThreads ==
    InitThreads /\ [][NextThreads]_vars /\ WF_vars(TimerThread) /\ WF_vars(MainThread)

\* windows created and removed, by events that name a client window or a
\* frame, where a call of add_window may return an error
NextCreate ==
    \/ \E w \in Windows, f \in {"none", "add_window"} : MapRequest(w, f, MaxFrames)
    \/ \E id \in Windows \cup FrameIds : UnmapNotify(id, "none")
    \/ \E n \in TagKeys : KeySwitchTag(n, "none")

SpecCreate == InitScreen /\ [][NextCreate]_vars

\* windows of two tags, one of them or none Fullscreen, and the pointer
\* entering the root, which is handled with a refresh and nothing else
NextRefresh ==
    \/ \E w \in Windows : MapRequest(w, "none", MaxFrames)
    \/ \E w \in Windows, data0 \in 0..1 :
          ClientMessage(w, data0, "_NET_WM_STATE", "_NET_WM_STATE_FULLSCREEN", "none")
    \/ \E n \in TagKeys : KeySwitchTag(n, "none")
    \/ EnterNotify(None, PointerRoot, "none")

SpecRefresh == Init /\ [][NextRefresh]_vars

\* windows moved between two tags and removed, with the keys and the
\* pointer that act on the focus
NextMoveFocus ==
    \/ \E w \in Windows : MapRequest(w, "none", MaxFrames)
    \/ \E w \in Windows : UnmapNotify(w, "none")
    \/ \E f \in FrameIds : EnterNotify(None, f, "none")
    \/ \E n \in TagKeys : KeySwitchTag(n, "none")
    \/ \E n \in TagKeys : KeyMoveWindow(n, "none")
    \/ \E c \in FocusChanges : KeyNextFocus(c, "none")
    \/ KeySwapMaster("none")

SpecMoveFocus == Init /\ [][NextMoveFocus]_vars

\* the pointer moving over the windows of two tags
NextEnter ==
    \/ \E w \in Windows : MapRequest(w, "none", MaxFrames)
    \/ \E e \in EnterInputs : EnterNotify(e[1], e[2], "none")
    \/ \E n \in TagKeys : KeySwitchTag(n, "none")
    \/ \E w \in Windows, data0 \in 0..1 :
          ClientMessage(w, data0, "_NET_WM_STATE", "_NET_WM_STATE_FULLSCREEN", "none")

SpecEnter == Init /\ [][NextEnter]_vars

NextMove ==
    \/ \E w \in Windows : MapRequest(w, "none", MaxFrames)
    \/ \E n \in TagKeys : KeySwitchTag(n, "none")
    \/ \E n \in TagKeys : KeyMoveWindow(n, "none")
    \/ \E c \in FocusChanges : KeyNextFocus(c, "none")

SpecMove == InitScreen /\ [][NextMove]_vars

\* the n of SwitchTag(n) and MoveWindow(n) in a hotkey table read from the
\* configuration file: any usize; the default table holds 1..9
HotkeyTags == {0, 1, 2, 9, 10}

\* the change of NextTag(change) in such a table: any i16; the default table
\* holds -1 and 1
TagChanges == {0 - 1, 1, 32767}

\* SpecKeys: one window mapped and the tag keys of a hotkey table read from
\* the configuration file
NextKeys ==
    \/ \E w \in Windows : MapRequest(w, "none", 1)
    \/ \E n \in HotkeyTags : KeySwitchTag(n, "none")
    \/ \E n \in HotkeyTags : KeyMoveWindow(n, "none")
    \/ \E c \in TagChanges : KeyNextTag(c, "none")

SpecKeys == Init /\ [][NextKeys]_vars

(***************************************************************************)
(*                               Properties                                *)
(***************************************************************************)
ActiveWindows == tags[active_tag].windows

MasterCount(ws) == Cardinality({i \in 1..Len(ws) : ws[i].group = "Master"})

Tileable(ws) == {i \in 1..Len(ws) : ~Exempt(ws[i])}

Geometry(w) == <<w.x, w.y, w.width, w.height>>

\* the parameters of the scenario of the specification's section 8
ScenarioTiling ==
    [gap |-> 10, ratio |-> 50, max_width |-> 1920, max_height |-> 1080, bar_height |-> 18]

\* windows A, B, C were added in that order to the empty active tag and the
\* state was refreshed
ScenarioABC ==
    /\ tiling = ScenarioTiling
    /\ last.refreshed
    /\ Len(ActiveWindows) = 3
    /\ \A i \in 1..3 : ActiveWindows[i].window = 10 + i /\ ~Exempt(ActiveWindows[i])

\* C1: after refresh() the active tag has at most one Master and, when it
\* holds a window that is neither Floating nor Fullscreen, the Master is the
\* last such window of the list.
C1_MasterIsLastTileable ==
    last.refreshed =>
        /\ MasterCount(ActiveWindows) <= 1
        /\ \A i \in Tileable(ActiveWindows) :
              (\A j \in Tileable(ActiveWindows) : j <= i)
                 => ActiveWindows[i].group = "Master"

\* C2 as stated: after every event that ended in refresh(), every one of the
\* nine tags holds at most one Master.
C2_EveryTagOneMaster ==
    last.refreshed => \A t \in TagIndices : MasterCount(tags[t].windows) <= 1

\* C2 amended: after every event that ended in refresh(), the active tag
\* holds at most one Master.
C2_ActiveTagOneMaster ==
    last.refreshed => MasterCount(ActiveWindows) <= 1

\* MoveWindow has moved a Master into a hidden tag that already had one
C2_Witness ==
    /\ last.refreshed
    /\ \E t \in TagIndices \ {active_tag} : MasterCount(tags[t].windows) = 2

\* C3: in every tag a set focus is the client id of a window of that tag,
\* and the focus of an empty tag is None.
C3_FocusNamesWindowOfTag ==
    \A t \in TagIndices :
        /\ tags[t].focus # None =>
              \E i \in 1..Len(tags[t].windows) : tags[t].windows[i].window = tags[t].focus
        /\ tags[t].windows = <<>> => tags[t].focus = None

\* of two windows mapped on the active tag one was unmapped: the focus is on
\* the window that is left, and every other tag is empty with no focus
C3_Witness ==
    /\ last.refreshed
    /\ next_id = 2
    /\ Len(ActiveWindows) = 1
    /\ tags[active_tag].focus = ActiveWindows[1].window
    /\ \A t \in TagIndices \ {active_tag} :
          tags[t].windows = <<>> /\ tags[t].focus = None

\* C4: a window id appears in at most one tag, and at most once in it.
C4_WindowIdUnique ==
    \A t1, t2 \in TagIndices :
        \A i \in 1..Len(tags[t1].windows), j \in 1..Len(tags[t2].windows) :
            tags[t1].windows[i].window = tags[t2].windows[j].window
                => t1 = t2 /\ i = j

\* C5 as stated: in the scenario, C is the Master at (10, 28, 1890, 1042).
C5_MasterGeometryStated ==
    ScenarioABC =>
        /\ ActiveWindows[3].group = "Master"
        /\ Geometry(ActiveWindows[3]) = <<10, 28, 1890, 1042>>

\* C5 amended: in the scenario, C is the Master at (10, 28, 940, 1042): with
\* Stack windows present the Master is max_width*(1-ratio) - 2*gap wide.
C5_MasterGeometry ==
    ScenarioABC =>
        /\ ActiveWindows[3].group = "Master"
        /\ Geometry(ActiveWindows[3]) = <<10, 28, 940, 1042>>

C5_Witness == ScenarioABC /\ ActiveWindows[3].frame_window = 23

\* C6: in the scenario, A is Stack at (960, 28, 950, 502) and B is Stack at
\* (960, 540, 950, 530).
C6_StackGeometry ==
    ScenarioABC =>
        /\ ActiveWindows[1].group = "Stack"
        /\ Geometry(ActiveWindows[1]) = <<960, 28, 950, 502>>
        /\ ActiveWindows[2].group = "Stack"
        /\ Geometry(ActiveWindows[2]) = <<960, 540, 950, 530>>

C6_Witness ==
    ScenarioABC /\ ActiveWindows[1].frame_window = 21 /\ ActiveWindows[2].frame_window = 22

\* C7: after a refresh that tiled the active tag with a Master and no Stack
\* window, the Master is at (gap, gap + bar_height) and is
\* max_width - 2*gap wide and max_height - 2*gap - bar_height high.
C7_LoneMasterFillsScreen ==
    (/\ last.refreshed
     /\ last.fault = "none"
     /\ \A i \in 1..Len(ActiveWindows) : ActiveWindows[i].group # "Stack")
    => \A i \in 1..Len(ActiveWindows) :
          ActiveWindows[i].group = "Master" =>
             Geometry(ActiveWindows[i]) =
                <<tiling.gap, tiling.gap + tiling.bar_height,
                  tiling.max_width - 2 * tiling.gap,
                  tiling.max_height - 2 * tiling.gap - tiling.bar_height>>

\* C8: no tiling pass divides by zero or takes a 16-bit value out of range.
C8_TilingNeverFails == last.fault = "none" /\ ~crashed

\* C9: the ratio is in [0.15, 0.85] in every reachable state.
C9_RatioInRange == tiling.ratio >= 15 /\ tiling.ratio <= 85

\* C10: handling ChangeRatio(delta) leaves the ratio at the old ratio plus
\* delta, clamped into [0.15, 0.85].
C10_ChangeRatioClamps ==
    [][\A change \in RatioChanges :
          KeyChangeRatio(change, "none") =>
             /\ tiling'.ratio >= 15 /\ tiling'.ratio <= 85
             /\ tiling'.ratio =
                   IF tiling.ratio + change < 15 THEN 15
                   ELSE IF tiling.ratio + change > 85 THEN 85
                   ELSE tiling.ratio + change]_vars

\* a ChangeRatio took the ratio to an end of the range and the tag was tiled
C10_Witness ==
    /\ last.refreshed
    /\ tiling.ratio \in {15, 85}
    /\ Len(ActiveWindows) >= 2

\* C11: a protocol call that fails while an event is handled does not cut the
\* handling short: an unmap of a window of the active tag still removes the
\* window and resets the focus to the last window left, and a map request for
\* a window the active tag does not hold still adds the window.
C11_FailedCallStillApplies ==
    [][/\ \A w \in Windows, f \in UnmapFails :
             (get_window_state(ActiveWindows, w) # 0 /\ UnmapNotify(w, f)) =>
                LET ws == tags'[active_tag].windows
                IN  /\ PositionOfWindow(ws, w) = 0
                    /\ tags'[active_tag].focus =
                          IF ws = <<>> THEN None ELSE ws[Len(ws)].window
       /\ \A w \in Windows, f \in MapFails :
             (get_window_state(ActiveWindows, w) = 0 /\ MapRequest(w, f, MaxFrames)) =>
                PositionOfWindow(tags'[active_tag].windows, w) # 0]_vars

\* C12: an error returned by a handler does not end the main loop: after a
\* handler has returned an error the loop still takes and handles an event.
C12_LoopGoesOnAfterError ==
    (~last.ok /\ ~crashed) => ENABLED NextFail

\* a handler has returned an error
C12_Witness == ~last.ok /\ ~crashed /\ next_id > 0

\* C13: handling the unmap event of a window some tag holds, the active tag
\* or a hidden one, leaves no tag that contains the window.
C13_UnmapRemovesFromEveryTag ==
    [][\A w \in Windows :
          (/\ \E t \in TagIndices : PositionOfWindow(tags[t].windows, w) # 0
           /\ UnmapNotify(w, "none"))
          => \A t \in TagIndices : PositionOfWindow(tags'[t].windows, w) = 0]_vars

\* the ids and frames of the windows of a tag, in list order
WindowIds(ws) == [i \in 1..Len(ws) |-> <<ws[i].window, ws[i].frame_window>>]

\* what a switch to the active tag leaves: no call of change_active_tag was
\* made (so none could fail), the active tag is the same, the hidden tags are
\* untouched and the active tag holds the same windows and focus
SameTagSwitchLeaves(fail) ==
    /\ fail \in RefreshFails
    /\ active_tag' = active_tag
    /\ \A t \in TagIndices \ {active_tag} : tags'[t] = tags[t]
    /\ WindowIds(tags'[active_tag].windows) = WindowIds(ActiveWindows)
    /\ tags'[active_tag].focus = tags[active_tag].focus

\* C17: a tag switch to the active tag (SwitchTag(n) with n - 1 the active
\* tag, NextTag of a multiple of 9) makes no map, unmap or active-desktop call
\* and leaves the active tag and every tag's windows and focus as they were.
C17_SameTagSwitchIsNoOp ==
    [][\A f \in TagSwitchFails :
          /\ \A n \in TagKeys :
                (n - 1 = active_tag /\ KeySwitchTag(n, f)) => SameTagSwitchLeaves(f)
          /\ \A c \in SameTagChanges :
                KeyNextTag(c, f) => SameTagSwitchLeaves(f)]_vars

\* the active tag and a hidden tag hold windows, an earlier handler returned an
\* error, and a SwitchTag to the active tag is handled to its end from here
C17_Witness ==
    /\ ~last.ok
    /\ ActiveWindows # <<>>
    /\ \E t \in TagIndices \ {active_tag} : tags[t].windows # <<>>
    /\ ENABLED (/\ \E n \in TagKeys : n - 1 = active_tag /\ KeySwitchTag(n, "none")
                /\ last'.refreshed)

\* the window ids of a list, in list order
IdsOf(ws) == [i \in 1..Len(ws) |-> ws[i].window]

\* changes of switch_focus_next the checks range over
FocusDeltas == (0 - 7)..7

\* the tag after k calls of switch_focus_next(1)
RECURSIVE FocusAfter(_, _)
FocusAfter(tag, k) == IF k = 0 THEN tag ELSE switch_focus_next(FocusAfter(tag, k - 1), 1)

IdsSwapped(ws, a, b) ==
    [i \in 1..Len(ws) |-> IF ws[i].window = a THEN b
                          ELSE IF ws[i].window = b THEN a ELSE ws[i].window]

C16_SwapMasterAlone ==
    [][(/\ Len(ActiveWindows) = 1
        /\ tags[active_tag].focus = ActiveWindows[1].window
        /\ ActiveWindows[1].group = "Master"
        /\ KeySwapMaster("none"))
       => tags' = tags /\ ~crashed' /\ last'.ok]_vars

\* a focused lone Master from which SwapMaster is handled to its end
C16_Witness ==
    /\ Len(ActiveWindows) = 1
    /\ tags[active_tag].focus = ActiveWindows[1].window
    /\ ActiveWindows[1].group = "Master"
    /\ ENABLED (KeySwapMaster("none") /\ last'.refreshed)

\* C18: adding a window to the active tag and removing it again with no
\* refresh in between gives back the window list of before the add and puts
\* the focus on the last window left, None on a tag that was empty.
C18_AddThenRemove ==
    \A w \in TileWindows :
        PositionOfWindow(ActiveWindows, w) = 0 =>
           LET added == add_window(tags, active_tag, NewWindowState(w, 21 + next_id))
               removed == set_tag_focus_to_master(
                             [added EXCEPT ![active_tag].windows = Retain(@, w)], active_tag)
           IN  /\ removed[active_tag].windows = ActiveWindows
               /\ removed[active_tag].focus =
                     IF ActiveWindows = <<>> THEN None
                     ELSE ActiveWindows[Len(ActiveWindows)].window
               /\ \A t \in TagIndices \ {active_tag} : removed[t] = tags[t]

\* a window was added to the empty tag and removed again
C18_Witness ==
    /\ next_id = 1
    /\ ActiveWindows = <<>>
    /\ tags[active_tag].focus = None

\* C19: tile_windows and refresh() on an empty active tag change nothing and
\* complete: stack_count does not go below zero, no arm of the pass runs, so
\* nothing is divided by zero and nothing overflows, whatever the tiling
\* parameters are.
C19_EmptyTagRefresh ==
    /\ StackCount(<<>>) >= 0
    /\ TileFault(<<>>, tiling) = "none"
    /\ tile_windows(<<>>, tiling) = <<>>
    /\ refresh(<<>>, tiling) = <<>>
    /\ (ActiveWindows = <<>> /\ last.refreshed) =>
          /\ last.fault = "none"
          /\ ~crashed

\* a refresh has run on the empty tag under the widest gap the configuration
\* accepts and with a ratio that ChangeRatio has set
C19_Witness ==
    /\ ActiveWindows = <<>>
    /\ last.refreshed
    /\ tiling.gap = 1000
    /\ tiling.ratio = 85

\* the list ws with the group g[i] given to its i-th window
WithGroups(ws, g) == [i \in 1..Len(ws) |-> [ws[i] EXCEPT !.group = g[i]]]

\* the groups of a list, in list order
GroupsOf(ws) == [i \in 1..Len(ws) |-> ws[i].group]

C21_TagIndexInRange ==
    /\ DOMAIN tags = 0..8
    /\ active_tag \in 0..8
    /\ last.fault \notin {"tag_index", "sub_overflow", "add_overflow"}

\* the positions of the Stack windows of a list
StackPositions(ws) == {j \in 1..Len(ws) : ws[j].group = "Stack"}

\* C22: after a refresh that tiled the active tag, each Stack window is at
\* x = max_width*(1-ratio), is max_width*ratio - gap wide, and with i its
\* 0-based position among the Stack windows only and N their number has
\* y = i*(max_height/N) (+gap+bar_height when i = 0) and
\* height = max_height/N - gap (-gap-bar_height more when i = 0), also when
\* Floating or Fullscreen windows sit before or between the Stack windows.
C22_StackGeometryByStackOrder ==
    (last.refreshed /\ last.fault = "none") =>
       \A p \in StackPositions(ActiveWindows) :
          LET i == Cardinality({j \in StackPositions(ActiveWindows) : j < p})
              N == Max(Cardinality(StackPositions(ActiveWindows)), 1)
              slot == tiling.max_height \div N
          IN  Geometry(ActiveWindows[p]) =
                 << (tiling.max_width * (RatioScale - tiling.ratio)) \div RatioScale,
                    IF i = 0 THEN tiling.gap + tiling.bar_height ELSE i * slot,
                    (tiling.max_width * tiling.ratio) \div RatioScale - tiling.gap,
                    IF i = 0 THEN slot - 2 * tiling.gap - tiling.bar_height
                    ELSE slot - tiling.gap >>

\* C23: handling an unmap event for a window tracked in the active tag, with
\* no failing protocol call, leaves the window absent from the active tag,
\* keeps the other windows in their order, and puts the tag's focus on its
\* last remaining window, None if none remains, whether or not the removed
\* window had the focus.
C23_UnmapRemovesAndRefocuses ==
    [][\A w \in TileWindows :
          (PositionOfWindow(ActiveWindows, w) # 0 /\ UnmapNotify(w, "none")) =>
             LET left == tags'[active_tag].windows
             IN  /\ active_tag' = active_tag
                 /\ PositionOfWindow(left, w) = 0
                 /\ WindowIds(left) =
                       SelectSeq(WindowIds(ActiveWindows), LAMBDA e : e[1] # w)
                 /\ tags'[active_tag].focus =
                       IF left = <<>> THEN None ELSE left[Len(left)].window]_vars

\* the window framed second was unmapped: the windows framed first and third
\* are left in their order and the focus is on the last one
C23_Witness ==
    /\ last.refreshed
    /\ Len(ActiveWindows) = 2
    /\ ActiveWindows[1].frame_window = 21
    /\ ActiveWindows[2].frame_window = 23
    /\ tags[active_tag].focus = ActiveWindows[2].window

\* C24: the client list published while the unmap of a tracked window w is
\* handled does not contain w and is the list of the window ids the active
\* tag holds after the removal.
C24_ClientListAfterRemoval ==
    [][\A w \in TileWindows :
          (PositionOfWindow(ActiveWindows, w) # 0 /\ UnmapNotify(w, "none")) =>
             LET published == net_update_client_list(tags, active_tag)
             IN  /\ \A i \in 1..Len(published) : published[i] # w
                 /\ published = IdsOf(tags'[active_tag].windows)]_vars

\* C25: a map request for a window the active tag does not track appends a
\* WindowState of group Stack to the active tag and focuses it, the window is
\* framed and mapped, and after the closing refresh it is the last window of
\* the tag, with the older windows before it in their order, and is the
\* Master; a map request for a window the active tag tracks changes nothing
\* and ends before any protocol call and before the refresh.
C25_MapRequestAppendsMaster ==
    [][\A w \in TileWindows :
          MapRequest(w, "none", MaxTiled) =>
             IF PositionOfWindow(ActiveWindows, w) = 0
             THEN LET new == NewWindowState(w, 21 + next_id)
                      now == tags'[active_tag].windows
                  IN  /\ new.group = "Stack"
                      /\ add_window(tags, active_tag, new)[active_tag].windows
                            = Append(ActiveWindows, new)
                      /\ Len(now) = Len(ActiveWindows) + 1
                      /\ WindowIds(now) = Append(WindowIds(ActiveWindows), <<w, 21 + next_id>>)
                      /\ now[Len(now)].group = "Master"
                      /\ tags'[active_tag].focus = w
                      /\ (21 + next_id) \in mapped'.frames
                      /\ last'.refreshed
             ELSE /\ UNCHANGED <<tags, active_tag, tiling, xfocus, next_id, mapped>>
                  /\ last'.ok /\ ~last'.refreshed]_vars

\* a third window was mapped on the tag: it is the last one, focused, mapped
\* and the only Master
C25_Witness ==
    /\ last.refreshed
    /\ Len(ActiveWindows) = 3
    /\ ActiveWindows[3].frame_window = 23
    /\ ActiveWindows[3].group = "Master"
    /\ MasterCount(ActiveWindows) = 1
    /\ tags[active_tag].focus = ActiveWindows[3].window
    /\ 23 \in mapped.frames

\* the client ids tracked by any tag
TrackedIds(tgs) == UNION {{tgs[t].windows[i].window : i \in 1..Len(tgs[t].windows)} : t \in TagIndices}

\* C26: MoveWindow(n) to another tag than the active one, with the active
\* tag's focus on a window w, leaves w as the last window of tag n-1 and out
\* of the active tag, the active tag's focus on its last remaining window or
\* None, and the set of tracked windows as it was; MoveWindow to the active
\* tag changes nothing.
C26_MoveWindowMovesFocus ==
    [][\A n \in TagKeys :
          KeyMoveWindow(n, "none") =>
             LET w == tags[active_tag].focus
                 left == tags'[active_tag].windows
                 there == tags'[n - 1].windows
             IN  /\ active_tag' = active_tag
                 /\ n - 1 = active_tag => tags' = tags
                 /\ (n - 1 # active_tag /\ w # None) =>
                       /\ there # <<>> /\ there[Len(there)].window = w
                       /\ WindowIds(there) =
                             Append(WindowIds(tags[n - 1].windows),
                                    WindowIds(ActiveWindows)[PositionOfWindow(ActiveWindows, w)])
                       /\ PositionOfWindow(left, w) = 0
                       /\ WindowIds(left) =
                             SelectSeq(WindowIds(ActiveWindows), LAMBDA e : e[1] # w)
                       /\ tags'[active_tag].focus =
                             IF left = <<>> THEN None ELSE left[Len(left)].window
                       /\ TrackedIds(tags') = TrackedIds(tags)
                       /\ \A t \in TagIndices \ {active_tag, n - 1} : tags'[t] = tags[t]]_vars

\* the window framed first was moved from the first tag to the second one,
\* behind the window framed after it: the first tag is empty with no focus
C26_Witness ==
    /\ last.refreshed
    /\ active_tag = 0
    /\ tags[0].windows = <<>> /\ tags[0].focus = None
    /\ Len(tags[1].windows) = 2
    /\ tags[1].windows[1].frame_window = 22
    /\ tags[1].windows[2].frame_window = 21

\* C27: when MoveWindow moves the focused window w from the active tag to a
\* tag t, the desktop value published for w is t, the index of the tag w is
\* in afterwards.
C27_DesktopIsTargetTag ==
    [][\A n \in TagKeys :
          (/\ n - 1 # active_tag
           /\ get_window_state(ActiveWindows, xfocus) # 0
           /\ KeyMoveWindow(n, "none")) =>
              /\ PositionOfWindow(tags'[n - 1].windows, xfocus) # 0
              /\ net_update_window_desktop(active_tag, n - 1) = n - 1]_vars

\* C28: after every handler that returned without a failing protocol call,
\* the managed windows left on the screen are exactly the windows of the
\* active tag: a tag switch unmaps those of the old tag and maps those of the
\* new one, and the other handlers map what they add to the active tag and
\* take off the screen what they remove from it.
C28_ScreenShowsActiveTag ==
    (last.ok /\ ~crashed) => mapped.frames = FramesOf(ActiveWindows)

FullscreenMessage(w, data0) ==
    ClientMessage(w, data0, "_NET_WM_STATE", "_NET_WM_STATE_FULLSCREEN", "none")

LastCallTo(calls, id) ==
    calls[CHOOSE i \in 1..Len(calls) :
             /\ calls[i].to = id
             /\ \A j \in (i + 1)..Len(calls) : calls[j].to # id]

Entered(child, event) ==
    IF get_window_state(ActiveWindows, event) # 0
    THEN get_window_state(ActiveWindows, event)
    ELSE get_window_state(ActiveWindows, child)

\* C32: a pointer-enter event naming an entry of the active tag, by its client
\* id or by its frame id, makes that entry's client id the focus of the active
\* tag, and the refresh that follows keeps it; an event naming no entry leaves
\* the focus of every tag and the ids and order of every tag's windows as
\* they were. No other tag's focus and no tag's membership changes either way.
C32_EnterSetsFocus ==
    [][\A e \in EnterInputs :
          EnterNotify(e[1], e[2], "none") =>
             /\ IF Entered(e[1], e[2]) # 0
                THEN /\ EnterFocus(EnterFocus(tags[active_tag], e[1]), e[2]).focus
                           = ActiveWindows[Entered(e[1], e[2])].window
                     /\ tags'[active_tag].focus
                           = ActiveWindows[Entered(e[1], e[2])].window
                ELSE tags'[active_tag].focus = tags[active_tag].focus
             /\ \A t \in DOMAIN tags :
                   /\ t # active_tag => tags'[t] = tags[t]
                   /\ WindowIds(tags'[t].windows) = WindowIds(tags[t].windows)]_vars

\* the pointer enters the frame of the first of two windows while the second
\* holds the focus
C32_Witness ==
    /\ Len(ActiveWindows) = 2
    /\ tags[active_tag].focus = ActiveWindows[2].window
    /\ ENABLED (/\ EnterNotify(None, ActiveWindows[1].frame_window, "none")
                /\ tags'[active_tag].focus = ActiveWindows[1].window
                /\ last'.refreshed)


\* C33: every tick the timer thread sends is in the end followed by a repaint
\* of the bar by the main thread, whether or not an event arrives after it
C33_TickLeadsToRepaint == loop.stale ~> ~loop.stale

\* C34: under every interleaving of the two threads a step of the timer
\* thread changes the channel and nothing of the aggregate state; the step
\* that consumes a tick takes it from the channel, repaints the bar and leaves
\* the aggregate state as it was; and the aggregate state changes only in a
\* step of the main thread that runs one handler from its call to its return
C34_OnlyMainTouchesState ==
    [][/\ TimerThread =>
            /\ UNCHANGED <<tags, active_tag, tiling, xfocus, next_id, mapped, crashed, last>>
            /\ loop'.main = loop.main /\ loop'.events = loop.events
       /\ TryRecv =>
            /\ UNCHANGED <<tags, active_tag, tiling, xfocus, next_id, mapped, crashed, last>>
            /\ loop.channel > 0 => loop'.channel = loop.channel - 1 /\ ~loop'.stale
            /\ loop.channel = 0 => loop'.channel = 0 /\ loop'.stale = loop.stale
       /\ aggregate' # aggregate =>
            /\ loop.main = "handle_event" /\ loop'.main = "poll_for_event"
            /\ loop'.timer = loop.timer /\ loop'.channel = loop.channel]_vars

\* a tick waits in the channel while the main thread, with a focused window
\* in its state, is at the head of its loop and consumes it
C34_Witness ==
    /\ loop.channel > 0
    /\ loop.stale
    /\ loop.main = "try_recv"
    /\ tags[active_tag].focus # None
    /\ ENABLED (TryRecv /\ ~loop'.stale)

\* C35: SwapMaster handled while the focus is on the Master, the last window
\* of the active tag, leaves the order of the windows as it was, whatever the
\* number of windows
C35_SwapMasterOnMasterKeepsOrder ==
    [][(/\ Len(ActiveWindows) >= 1
        /\ tags[active_tag].focus = ActiveWindows[Len(ActiveWindows)].window
        /\ KeySwapMaster("none"))
       => /\ swap_master(tags[active_tag]).windows = ActiveWindows
          /\ WindowIds(tags'[active_tag].windows) = WindowIds(ActiveWindows)]_vars

\* C36: the server grab that add_window takes around the reparenting is given
\* back on every path: when the handler of a map request has returned, also
\* with the error of a failed change_save_set, reparent_window or map, the
\* server is not grabbed
C36_GrabIsReleased == ~mapped.grabbed

\* C37: once an unmap event whose window is the client id or the frame id of
\* an entry of the active tag has been handled, the entry is in no tag any
\* more: no entry is left that is tracked with the frame the handler destroyed
C37_UnmapLeavesNoDestroyedFrame ==
    [][\A id \in Windows \cup FrameIds :
          (get_window_state(ActiveWindows, id) # 0 /\ UnmapNotify(id, "none")) =>
             LET entry == ActiveWindows[get_window_state(ActiveWindows, id)]
             IN  \A t \in TagIndices :
                    entry.frame_window \notin FramesOf(tags'[t].windows)]_vars

\* the Master and Stack windows of a list
Tiled(ws) == {i \in 1..Len(ws) : ws[i].group \in {"Master", "Stack"}}

\* two rectangles share no point; one without width or height holds none
Disjoint(a, b) ==
    \/ a.width = 0 \/ a.height = 0 \/ b.width = 0 \/ b.height = 0
    \/ a.x + a.width <= b.x
    \/ b.x + b.width <= a.x
    \/ a.y + a.height <= b.y
    \/ b.y + b.height <= a.y

\* C38: after a refresh in which no subtraction went below zero, the Master
\* and Stack windows of the active tag lie inside the screen and below the
\* bar, and no two of them overlap, however many windows the tag holds and
\* wherever its Fullscreen windows stand
C38_TiledInsideAndDisjoint ==
    (last.refreshed /\ last.fault = "none" /\ ~crashed) =>
       /\ \A i \in Tiled(ActiveWindows) :
             LET w == ActiveWindows[i]
             IN  /\ 0 <= w.x
                 /\ w.x + w.width <= tiling.max_width
                 /\ tiling.bar_height <= w.y
                 /\ w.y + w.height <= tiling.max_height
       /\ \A i, j \in Tiled(ActiveWindows) :
             i # j => Disjoint(ActiveWindows[i], ActiveWindows[j])

WindowGroups == {"Master", "Stack", "Floating", "Fullscreen"}

\* the tiling parameters in use and those of every configuration of TileConfigs
Tilings == {tiling} \cup {NewTilingInfo(ConfigFrom(c), DefaultScreen) : c \in TileConfigs}

\* C39: StateHandler::refresh is idempotent and local.  Whatever groups the
\* windows of the active tag have and whatever the tiling parameters are, a
\* second refresh gives the groups and geometry of the first, and a refresh
\* keeps the ids and the order of the windows.  A handler that does nothing to
\* the state but refresh it (a pointer-enter naming no tracked window) leaves
\* active_tag, the tiling parameters, every tag's focus and every window of
\* the other tags as they were and gives the active tag refresh() of its
\* windows, which a further refresh leaves as they are.
C39_RefreshIdempotentAndLocal ==
    [][/\ \A g \in [1..Len(ActiveWindows) -> WindowGroups], tl \in Tilings :
             LET ws == WithGroups(ActiveWindows, g)
                 once == refresh(ws, tl)
             IN  /\ refresh(once, tl) = once
                 /\ WindowIds(once) = WindowIds(ws)
       /\ (EnterNotify(None, PointerRoot, "none") /\ ~crashed') =>
                /\ active_tag' = active_tag
                /\ tiling' = tiling
                /\ \A t \in TagIndices :
                      /\ tags'[t].focus = tags[t].focus
                      /\ t # active_tag => tags'[t] = tags[t]
                /\ tags'[active_tag].windows = refresh(ActiveWindows, tiling)
                /\ refresh(tags'[active_tag].windows, tiling') = tags'[active_tag].windows]_vars

\* the pointer enters the root while the active tag holds a Fullscreen window
\* before its Master, and the refresh is run
C39_Witness ==
    /\ Len(ActiveWindows) = 2
    /\ ActiveWindows[1].group = "Fullscreen"
    /\ ActiveWindows[2].group = "Master"
    /\ ENABLED (EnterNotify(None, PointerRoot, "none") /\ last'.refreshed)

\* MoveWindow only appends to the tag it moves to, whose focus it leaves
\* alone, and NextFocus and SwapMaster change nothing while the active tag has
\* no focus
MoveAppendsAndNoFocusIsInert ==
    /\ \A n \in TagKeys :
          (KeyMoveWindow(n, "none") /\ n - 1 # active_tag) =>
             /\ tags'[n - 1].focus = tags[n - 1].focus
             /\ \/ tags'[n - 1].windows = tags[n - 1].windows
                \/ /\ Len(tags'[n - 1].windows) = Len(tags[n - 1].windows) + 1
                   /\ SubSeq(tags'[n - 1].windows, 1, Len(tags[n - 1].windows))
                         = tags[n - 1].windows
                   /\ tags'[n - 1].windows[Len(tags'[n - 1].windows)].window = xfocus
             /\ (tags[n - 1].windows = <<>> /\ tags'[n - 1].windows # <<>>) =>
                   tags'[n - 1].focus = None
    /\ \A c \in FocusChanges :
          (KeyNextFocus(c, "none") /\ tags[active_tag].focus = None) =>
             tags' = tags /\ active_tag' = active_tag /\ ~crashed'
    /\ (KeySwapMaster("none") /\ tags[active_tag].focus = None) =>
          tags' = tags /\ active_tag' = active_tag /\ ~crashed'

\* C40 as stated: MoveWindow only appends to the target tag and leaves its
\* focus alone, so a window moved into an empty tag leaves it non-empty with
\* focus None; NextFocus and SwapMaster then change nothing, and nothing but a
\* pointer-enter or a new window gives a tag without focus a focus
C40_OnlyEnterOrMapSetsFocus ==
    [][/\ MoveAppendsAndNoFocusIsInert
       /\ \A t \in TagIndices :
             (tags[t].focus = None /\ tags'[t].focus # None) =>
                \/ \E f \in FrameIds : EnterNotify(None, f, "none")
                \/ \E w \in Windows : MapRequest(w, "none", MaxFrames)]_vars

\* C40: MoveWindow only appends the moved window to the target tag and leaves
\* the target's focus and other windows alone, so a window moved into an empty
\* tag leaves it non-empty with focus None; while the active tag has no focus
\* NextFocus and SwapMaster change nothing, and a tag without focus gets one
\* only from a pointer-enter, a new window, or the removal of one of its
\* windows, which puts the focus on the last window left
C40_MoveAppendsFocusStaysNone ==
    [][/\ MoveAppendsAndNoFocusIsInert
       /\ \A t \in TagIndices :
             (tags[t].focus = None /\ tags'[t].focus # None) =>
                /\ t = active_tag
                /\ \/ \E f \in FrameIds : EnterNotify(None, f, "none")
                   \/ \E w \in Windows : MapRequest(w, "none", MaxFrames)
                   \/ \E w \in Windows : UnmapNotify(w, "none")]_vars

\* the active tag holds a window that was moved into it while it was empty,
\* and has no focus: NextFocus and SwapMaster can be pressed
C40_Witness ==
    /\ active_tag = 1
    /\ Len(ActiveWindows) = 1
    /\ ActiveWindows[1].frame_window = 21
    /\ tags[0].windows = <<>>
    /\ tags[active_tag].focus = None
    /\ last.refreshed
    /\ ENABLED (KeyNextFocus(1, "none") /\ last'.ok)
    /\ ENABLED (KeySwapMaster("none") /\ last'.ok)

====
